---- MODULE Spec2Model ----
(***************************************************************************)
(* reverprox-rs: the message codec (message/src/lib.rs) and the server's   *)
(* accept and per-stream receive loops (server/src/main.rs).               *)
(*                                                                         *)
(* Byte buffers are sequences of numbers 0..255, indexed from 1: byte k of *)
(* the Rust buffer is element k+1 here.                                     *)
(***************************************************************************)
EXTENDS Integers, Sequences, FiniteSets, TLC

VARIABLES
    \* codec harness: one Message value, one buffer, one decode result
    m, buf, origin, res, cpc,
    \* server process (server/src/main.rs)
    alive,      \* the process runs: main has not panicked
    connTask,   \* per connection: where its task stands (lines 31-80)
    owner,      \* per stream: the connection it was accepted from, 0 if none
    task,       \* per stream: where its reader task stands (lines 38-67)
    wire,       \* per stream: the chunks recv holds, not yet read
    fin,        \* per stream: the peer has finished its side
    handled,    \* per stream: the messages decoded and dispatched, in order
    writes,     \* how many buffers the peers have written
    \* history: the chunks the transport has delivered to each stream so far
    sent,
    \* sender (examples/client.rs): the buffers it has passed to write_chunk
    out

codecVars == <<m, buf, origin, res, cpc>>
serverVars == <<alive, connTask, owner, task, wire, fin, handled, writes, sent>>
vars == <<m, buf, origin, res, cpc,
          alive, connTask, owner, task, wire, fin, handled, writes, sent, out>>

----------------------------------------------------------------------------
(* Program constants *)

CHUNK_SIZE == 512
MAGIC_BYTE == 170
HEADER_LENGTH == 39
READ_MAX == 500
INIT_PAYLOAD_LENGTH == 12

(* Bounds of the model *)

MaxPayloadLen == 2
MaxConns == 2
MaxStreams == 2
MaxWrites == 2
BigPayloadLen == 480
MaxLiteralLen == 3

----------------------------------------------------------------------------
(* Bytes and fixed-width integers *)

Byte == 0..255

Min(a, b) == IF a < b THEN a ELSE b

Take(s, n) == SubSeq(s, 1, Min(n, Len(s)))

Drop(s, n) == SubSeq(s, n + 1, Len(s))

\* A u32 is kept as two 16-bit limbs, [hi, lo], its value hi * 65536 + lo:
\* TLC's integers stop short of 2^32.

\* `payload.len() as u32`: a length below 2^31 narrowed to 32 bits
AsU32(n) == [hi |-> (n \div 65536) % 65536, lo |-> n % 65536]

\* u32::to_be_bytes written least significant byte first
U32ToLeBytes(n) ==
    << n.lo % 256, n.lo \div 256, n.hi % 256, n.hi \div 256 >>

\* u32::to_be_bytes
U32ToBeBytes(n) ==
    << n.hi \div 256, n.hi % 256, n.lo \div 256, n.lo % 256 >>

\* u32::from_be_bytes of a 4-byte slice
U32FromBeBytes(b) ==
    [hi |-> b[1] * 256 + b[2], lo |-> b[3] * 256 + b[4]]

\* `n as usize` on a 64-bit target, for a u32 below 2^31
AsUsize(n) == n.hi * 65536 + n.lo

\* `len < HEADER_LENGTH + n as usize` for a buffer length len below 2^31
ShorterThanFrame(len, n) ==
    \/ n.hi >= 32768
    \/ len - HEADER_LENGTH < AsUsize(n)

\* u16::from_le_bytes of a 2-byte slice
U16FromLeBytes(b) == b[2] * 256 + b[1]

\* u16::from_be_bytes of a 2-byte slice
U16FromBeBytes(b) == b[1] * 256 + b[2]

\* u16::to_be_bytes
U16ToBeBytes(n) == << (n \div 256) % 256, n % 256 >>

----------------------------------------------------------------------------
(* enum MessageType / ProtocolVersion and their u8 representations *)

MessageTypes == {"Initial", "Data", "Close", "Ping"}

MessageTypeAsU8(t) ==
    CASE t = "Initial" -> 1
      [] t = "Data"    -> 2
      [] t = "Close"   -> 3
      [] t = "Ping"    -> 4

ProtocolVersionAsU8(v) == CASE v = "V1" -> 1

\* io::Error values: the kind and the message text
Err(kind, text) == [ok |-> FALSE, kind |-> kind, text |-> text]

Ok(v) == [ok |-> TRUE, val |-> v]

\* a parser that takes only version-4 identifiers: 16 bytes, the high half
\* of byte 6 being 4
UuidV4FromSlice(b) ==
    IF Len(b) = 16 /\ b[7] \div 16 = 4
    THEN Ok(b) ELSE Err("InvalidData", "invalid identifier")

\* Uuid::from_slice: any slice of exactly 16 bytes is a Uuid
UuidFromSlice(b) ==
    IF Len(b) = 16 THEN Ok(b) ELSE Err("InvalidData", "invalid length")

----------------------------------------------------------------------------
(* struct Message *)

\* Message::new; mid is the value msg_utils::generate_uuid() returned
MessageNew(msg_type, connection_id, mid, payload) ==
    [ magic         |-> MAGIC_BYTE,
      version       |-> "V1",
      message_type  |-> msg_type,
      connection_id |-> connection_id,
      message_id    |-> mid,
      length        |-> AsU32(Len(payload)),
      payload       |-> payload ]

\* Message::encode
Encode(msg) ==
    << msg.magic, ProtocolVersionAsU8(msg.version), MessageTypeAsU8(msg.message_type) >>
        \o msg.connection_id
        \o msg.message_id
        \o U32ToBeBytes(msg.length)
        \o msg.payload

\* Message::decode: `msg.len() < HEADER_LENGTH`
HeaderIncomplete(msg) == Len(msg) < HEADER_LENGTH

\* Message::decode: `match msg[1]`
DecodeVersion(b) ==
    IF b = 1 THEN Ok("V1") ELSE Err("InvalidData", "Unknown message type")

\* Message::decode: `match msg[2]`
DecodeMessageType(b) ==
    CASE b = 1 -> Ok("Initial")
      [] b = 2 -> Ok("Data")
      [] b = 3 -> Ok("Close")
      [] b = 4 -> Ok("Ping")
      [] OTHER -> Err("InvalidData", "Unknown message type")

\* the payload check of Message::decode reporting a malformed frame
PayloadIncompleteAsInvalid(msg, length) ==
    IF ShorterThanFrame(Len(msg), length)
    THEN Err("InvalidData", "Payload incomplete")
    ELSE Ok(SubSeq(msg, HEADER_LENGTH + 1, HEADER_LENGTH + AsUsize(length)))

\* a payload slice that runs to the end of the buffer
PayloadToEnd(msg, length) ==
    IF ShorterThanFrame(Len(msg), length)
    THEN Err("UnexpectedEof", "Payload incomplete")
    ELSE Ok(Drop(msg, HEADER_LENGTH))

\* Message::decode: the payload-length check and the payload slice
DecodePayload(msg, length) ==
    IF ShorterThanFrame(Len(msg), length)
    THEN Err("UnexpectedEof", "Payload incomplete")
    ELSE Ok(SubSeq(msg, HEADER_LENGTH + 1, HEADER_LENGTH + AsUsize(length)))

\* Message::decode
Decode(msg) ==
    IF HeaderIncomplete(msg) THEN Err("UnexpectedEof", "Headers are incomplete")
    ELSE
    LET magic        == msg[1]
        version      == DecodeVersion(msg[2])
        message_type == DecodeMessageType(msg[3])
        connection_id == UuidFromSlice(SubSeq(msg, 4, 19))
        message_id   == UuidFromSlice(SubSeq(msg, 20, 35))
        length       == U32FromBeBytes(SubSeq(msg, 36, 39))
        payload      == DecodePayload(msg, length)
    IN  CASE ~version.ok       -> version
          [] ~message_type.ok  -> message_type
          [] ~connection_id.ok -> connection_id
          [] ~message_id.ok    -> message_id
          [] ~payload.ok       -> payload
          [] OTHER ->
                Ok([ magic         |-> magic,
                     version       |-> version.val,
                     message_type  |-> message_type.val,
                     connection_id |-> connection_id.val,
                     message_id    |-> message_id.val,
                     length        |-> length,
                     payload       |-> payload.val ])

\* the pointer widths of the targets the crate builds for
UsizeBits == {32, 64}

\* `HEADER_LENGTH + length as usize` does not fit in a usize of the given
\* width: the sum is 2^32 or more
FrameEndOverflows(bits, n) ==
    bits = 32 /\ n.hi = 65535 /\ n.lo + HEADER_LENGTH > 65535

\* the call does not return: the thread panics
Panic(text) == [ok |-> FALSE, kind |-> "panic", text |-> text]

\* Message::decode on a target with a usize of the given width. The sum
\* HEADER_LENGTH + length as usize is computed in usize: where it overflows,
\* a build with overflow checks panics at the addition, and a build without
\* them wraps to a value below HEADER_LENGTH, passes the payload check and
\* panics at the slice msg[HEADER_LENGTH..sum].
DecodeOn(bits, msg) ==
    IF /\ ~HeaderIncomplete(msg)
       /\ DecodeVersion(msg[2]).ok
       /\ DecodeMessageType(msg[3]).ok
       /\ FrameEndOverflows(bits, U32FromBeBytes(SubSeq(msg, 36, 39)))
    THEN Panic("HEADER_LENGTH + length as usize")
    ELSE Decode(msg)

----------------------------------------------------------------------------
(* struct InitializationMessage *)

\* Ipv4Addr::from_bits: the octets of the address are the big-endian bytes
Ipv4FromBits(n) == U32ToBeBytes(n)

\* a SocketAddr: IPv4 with 4 octets or IPv6 with 16, and a port
SocketAddrV4(ip, port) == [v4 |-> TRUE, ip |-> ip, port |-> port]
SocketAddrV6(ip, port) == [v4 |-> FALSE, ip |-> ip, port |-> port]

\* InitializationMessage::new
InitNew(addr, proxy_addr) ==
    IF ~addr.v4 \/ ~proxy_addr.v4
    THEN Err("Unsupported", "IPv6 is not supported")
    ELSE Ok([ client_ip   |-> addr.ip,
              client_port |-> addr.port,
              proxy_port  |-> proxy_addr.port,
              proxy_host  |-> proxy_addr.ip ])

\* InitializationMessage::encode
InitEncode(p) ==
    U16ToBeBytes(p.client_port) \o U16ToBeBytes(p.proxy_port)
        \o p.client_ip \o p.proxy_host

\* InitializationMessage::decode
InitDecode(msg) ==
    IF Len(msg) < INIT_PAYLOAD_LENGTH
    THEN Err("UnexpectedEof", "Initial message is incorrect")
    ELSE Ok([ client_ip   |-> Ipv4FromBits(U32FromBeBytes(SubSeq(msg, 5, 8))),
              client_port |-> U16FromBeBytes(SubSeq(msg, 1, 2)),
              proxy_port  |-> U16FromBeBytes(SubSeq(msg, 3, 4)),
              proxy_host  |-> Ipv4FromBits(U32FromBeBytes(SubSeq(msg, 9, 12))) ])

----------------------------------------------------------------------------
(* Inputs of the codec harness *)

Uuid(b) == [i \in 1..16 |-> b]

\* connection ids a client may have drawn
ConnectionIds == {Uuid(17), Uuid(34)}

\* values msg_utils::generate_uuid() may return
GeneratedIds == {Uuid(161), Uuid(178)}

\* the handshake payload of examples/client.rs: 127.0.0.1:20000 -> 127.0.0.1:3000
InitPayload ==
    InitEncode([ client_ip   |-> <<127, 0, 0, 1>>, client_port |-> 20000,
                 proxy_port  |-> 3000,             proxy_host  |-> <<127, 0, 0, 1>> ])

PayloadAlphabet == {1, 170}

Payloads ==
    UNION { [1..n -> PayloadAlphabet] : n \in 0..MaxPayloadLen } \cup {InitPayload}

\* byte values written over a header byte of a frame
CorruptBytes == {2, 9}

NoMsg == [none |-> TRUE]

CodecInit ==
    /\ m = NoMsg
    /\ buf = <<>>
    /\ origin = "none"
    /\ res = NoMsg
    /\ cpc = "idle"

\* a step of the codec harness leaves the server and the sender alone
CodecStep == UNCHANGED <<serverVars, out>>

\* a caller builds a message with Message::new
CodecNew(t, c, id, p) ==
    /\ cpc = "idle"
    /\ m' = MessageNew(t, c, id, p)
    /\ cpc' = "built"
    /\ UNCHANGED <<buf, origin, res>>

\* the endpoints a caller may pass to InitializationMessage::new
Ipv4Addrs == { <<127, 0, 0, 1>>, <<10, 0, 2, 255>> }
Ports == { 0, 3000, 20000, 65535 }
SocketAddrs ==
    { SocketAddrV4(ip, port) : ip \in Ipv4Addrs, port \in Ports }
        \cup { SocketAddrV6([i \in 1..16 |-> IF i = 16 THEN 1 ELSE 0], port) :
                  port \in Ports }

\* a caller builds a handshake payload from two endpoints
CodecInitNew(addr, proxy_addr) ==
    /\ cpc = "idle"
    /\ m' = [addr |-> addr, proxy_addr |-> proxy_addr]
    /\ res' = InitNew(addr, proxy_addr)
    /\ cpc' = IF InitNew(addr, proxy_addr).ok THEN "built" ELSE "failed"
    /\ UNCHANGED <<buf, origin>>

\* the caller encodes the payload it was given
CodecInitEncode ==
    /\ cpc = "built"
    /\ buf' = InitEncode(res.val)
    /\ cpc' = "encoded"
    /\ UNCHANGED <<m, origin, res>>

\* InitializationMessage::decode is applied to the bytes
CodecInitDecode ==
    /\ cpc = "encoded"
    /\ res' = InitDecode(buf)
    /\ cpc' = "decoded"
    /\ UNCHANGED <<m, buf, origin>>

\* the values a caller may put in the public field `length` of a Message
LiteralLengths == { AsU32(n) : n \in 0..MaxLiteralLen }

\* a caller builds a message as a struct literal, every field of Message
\* being public: `length` is whatever the caller wrote
CodecLiteral(t, c, id, p, n) ==
    /\ cpc = "idle"
    /\ m' = [ magic         |-> MAGIC_BYTE,
              version       |-> "V1",
              message_type  |-> t,
              connection_id |-> c,
              message_id    |-> id,
              length        |-> n,
              payload       |-> p ]
    /\ cpc' = "built"
    /\ UNCHANGED <<buf, origin, res>>

\* the caller encodes it
CodecEncode ==
    /\ cpc = "built"
    /\ buf' = Encode(m)
    /\ origin' = "frame"
    /\ cpc' = "encoded"
    /\ UNCHANGED <<m, res>>

\* one of the bytes magic, version, type of the buffer is overwritten
CodecCorrupt(i, v) ==
    /\ cpc = "encoded"
    /\ origin \in {"frame", "corrupt"}
    /\ buf[i] # v
    /\ buf' = [buf EXCEPT ![i] = v]
    /\ origin' = "corrupt"
    /\ UNCHANGED <<m, res, cpc>>

\* only the first k bytes of the buffer have arrived
CodecTruncate(k) ==
    /\ cpc = "encoded"
    /\ origin \in {"frame", "corrupt"}
    /\ k < Len(buf)
    /\ buf' = Take(buf, k)
    /\ origin' = IF origin = "frame" THEN "prefix" ELSE "corruptprefix"
    /\ UNCHANGED <<m, res, cpc>>

\* header offsets (from 1) written over: version, type, the first and last
\* byte of connection_id and of message_id
PokeOffsets == {2, 3, 4, 19, 20, 35}

\* the byte values written there
PokeBytes == {0, 3, 255}

\* values written over the length field: zero, one, 2^31, the largest length
\* whose frame end fits in 32 bits, the least that does not, and 2^32 - 1
PokeLengths ==
    { [hi |-> 0, lo |-> 0], [hi |-> 0, lo |-> 1], [hi |-> 32768, lo |-> 0],
      [hi |-> 65535, lo |-> 65535 - HEADER_LENGTH],
      [hi |-> 65535, lo |-> 65536 - HEADER_LENGTH],
      [hi |-> 65535, lo |-> 65535] }

\* byte sequences that follow a frame in a buffer
Suffixes == { <<0>>, <<170, 1, 2>> }

\* one header byte of the frame is overwritten
CodecPoke(i, v) ==
    /\ cpc = "encoded"
    /\ origin = "frame"
    /\ buf[i] # v
    /\ buf' = [buf EXCEPT ![i] = v]
    /\ origin' = "poked"
    /\ UNCHANGED <<m, res, cpc>>

\* the length field of the buffer is overwritten
CodecSetLength(n) ==
    /\ cpc = "encoded"
    /\ origin \in {"frame", "poked"}
    /\ SubSeq(buf, 36, 39) # U32ToBeBytes(n)
    /\ buf' = SubSeq(buf, 1, HEADER_LENGTH - 4) \o U32ToBeBytes(n)
                  \o Drop(buf, HEADER_LENGTH)
    /\ origin' = "raw"
    /\ UNCHANGED <<m, res, cpc>>

\* more bytes follow the frame in the buffer
CodecExtend(suffix) ==
    /\ cpc = "encoded"
    /\ origin = "frame"
    /\ buf' = buf \o suffix
    /\ origin' = "extended"
    /\ UNCHANGED <<m, res, cpc>>

\* Message::decode is applied to the buffer on a target of the given width
CodecDecodeOn(bits) ==
    /\ cpc = "encoded"
    /\ res' = DecodeOn(bits, buf)
    /\ cpc' = "decoded"
    /\ UNCHANGED <<m, buf, origin>>

\* Message::decode is applied to the buffer
CodecDecode ==
    /\ cpc = "encoded"
    /\ res' = Decode(buf)
    /\ cpc' = "decoded"
    /\ UNCHANGED <<m, buf, origin>>

CodecNext ==
    \/ \E t \in MessageTypes, c \in ConnectionIds, id \in GeneratedIds, p \in Payloads :
            CodecNew(t, c, id, p) /\ CodecStep
    \/ CodecEncode /\ CodecStep
    \/ \E i \in 1..3, v \in CorruptBytes : CodecCorrupt(i, v) /\ CodecStep
    \/ \E k \in 0..(HEADER_LENGTH + INIT_PAYLOAD_LENGTH) :
            CodecTruncate(k) /\ CodecStep
    \/ CodecDecode /\ CodecStep

----------------------------------------------------------------------------
(* The server process: main's accept loop, one task per connection, one    *)
(* task per bidirectional stream.                                           *)

Conns == 1..MaxConns
Streams == 1..MaxStreams

ConnA == Uuid(17)
ConnB == Uuid(34)
MidA == Uuid(161)

\* buf with its byte at index i overwritten
WithByte(b, i, v) == [b EXCEPT ![i] = v]

\* messages a client builds with Message::new
MInit      == MessageNew("Initial", ConnA, MidA, InitPayload)
MInitShort == MessageNew("Initial", ConnA, MidA, <<1>>)
MData      == MessageNew("Data", ConnA, MidA, <<7>>)
MDataB     == MessageNew("Data", ConnB, MidA, <<8>>)
MClose     == MessageNew("Close", ConnA, MidA, <<>>)
MPing      == MessageNew("Ping", ConnA, MidA, <<>>)
MBig       == MessageNew("Data", ConnA, MidA, [i \in 1..BigPayloadLen |-> 0])

PeerMessages == {MInit, MInitShort, MData, MDataB, MClose, MPing, MBig}

FData  == Encode(MData)
FClose == Encode(MClose)

\* what a peer may write to a stream: frames, frames back to back, frames
\* with a bad version, type or magic byte
PeerBufs ==
    { Encode(x) : x \in PeerMessages }
        \cup { FData \o FClose,
               WithByte(FData, 2, 2), WithByte(FData, 3, 9), WithByte(FData, 1, 0) }

\* what the peers write when several connections and streams are open: a
\* frame, and a buffer Message::decode fails on
ServerBufs ==
    { FData, WithByte(FData, 3, 9) }

\* where the transport may split one write into two chunks (0: no split)
CutsOf(b) == {0} \cup { k \in {HEADER_LENGTH - 1, HEADER_LENGTH} : k < Len(b) }

ChunksOf(b, cut) == IF cut = 0 THEN <<b>> ELSE << Take(b, cut), Drop(b, cut) >>

ServerInit ==
    /\ alive = TRUE
    /\ connTask = [c \in Conns |-> "none"]
    /\ owner = [s \in Streams |-> 0]
    /\ task = [s \in Streams |-> "none"]
    /\ wire = [s \in Streams |-> <<>>]
    /\ fin = [s \in Streams |-> FALSE]
    /\ handled = [s \in Streams |-> <<>>]
    /\ writes = 0
    /\ sent = [s \in Streams |-> <<>>]

\* a panic in a task started by tokio::spawn taking the whole process down
AbortOnTaskPanic(a) == FALSE

\* a panic in a task started by tokio::spawn ends that task; the runtime and
\* the other tasks go on
AfterTaskPanic(a) == a

\* main: endpoint.accept().await.unwrap().await.unwrap(), then tokio::spawn
MainAccept(c) ==
    /\ alive
    /\ connTask[c] = "none"
    /\ \A d \in Conns : d < c => connTask[d] # "none"
    /\ connTask' = [connTask EXCEPT ![c] = "accept"]
    /\ UNCHANGED <<alive, owner, task, wire, fin, handled, writes>>

\* main: the incoming connection's handshake fails, the second unwrap panics
\* in main and the process exits with all its tasks
MainAcceptFail ==
    /\ alive
    /\ alive' = FALSE
    /\ connTask' = [c \in Conns |-> "none"]
    /\ owner' = [s \in Streams |-> 0]
    /\ task' = [s \in Streams |-> "none"]
    /\ wire' = [s \in Streams |-> <<>>]
    /\ fin' = [s \in Streams |-> FALSE]
    /\ handled' = [s \in Streams |-> <<>>]
    /\ writes' = 0

\* connection task: accept_bi() yields a stream; its reader task is spawned
AcceptBi(c, s) ==
    /\ alive
    /\ connTask[c] = "accept"
    /\ owner[s] = 0
    /\ \A t \in Streams : t < s => owner[t] # 0
    /\ owner' = [owner EXCEPT ![s] = c]
    /\ task' = [task EXCEPT ![s] = "reading"]
    /\ connTask' = [connTask EXCEPT ![c] = "respond"]
    /\ UNCHANGED <<alive, wire, fin, handled, writes>>

\* connection task: write_chunk("response"), the 2 s sleep and
\* write_chunk("response22") succeed; back to accept_bi()
ConnRespond(c) ==
    /\ alive
    /\ connTask[c] = "respond"
    /\ connTask' = [connTask EXCEPT ![c] = "accept"]
    /\ UNCHANGED <<alive, owner, task, wire, fin, handled, writes>>

\* connection task: the peer has stopped the stream, write_chunk fails and
\* unwrap_or_else panics
ConnRespondErr(c) ==
    /\ alive
    /\ connTask[c] = "respond"
    /\ connTask' = [connTask EXCEPT ![c] = "panicked"]
    /\ alive' = AfterTaskPanic(alive)
    /\ UNCHANGED <<owner, task, wire, fin, handled, writes>>

\* the stream has ended and all of it was read: read_chunk yields Ok(None),
\* now and at every later call, whatever becomes of the connection
AtEnd(s) == fin[s] /\ wire[s] = <<>>

\* the transport connection is closed or lost, and each of its tasks meets the
\* error at its next await: accept_bi() yields Err and the while-let loop ends,
\* write_chunk fails and panics, read_chunk yields Err and the loop breaks
ConnectionLost(c) ==
    /\ alive
    /\ connTask[c] \in {"accept", "respond"}
    /\ connTask' = [connTask EXCEPT ![c] = IF @ = "accept" THEN "done" ELSE "panicked"]
    /\ alive' = IF connTask[c] = "respond" THEN AfterTaskPanic(alive) ELSE alive
    /\ task' = [s \in Streams |->
                  IF owner[s] = c /\ task[s] = "reading" /\ ~AtEnd(s)
                  THEN "stopped" ELSE task[s]]
    /\ wire' = [s \in Streams |-> IF owner[s] = c THEN <<>> ELSE wire[s]]
    /\ UNCHANGED <<owner, fin, handled, writes>>

\* the peer writes b to the stream; the transport delivers it as chunks
PeerWrite(s, b, cut) ==
    /\ alive
    /\ task[s] = "reading"
    /\ ~fin[s]
    /\ writes < MaxWrites
    /\ wire' = [wire EXCEPT ![s] = @ \o ChunksOf(b, cut)]
    /\ writes' = writes + 1
    /\ UNCHANGED <<alive, connTask, owner, task, fin, handled>>

\* the peer finishes its side of the stream; the reader meets the end of the
\* stream once it has read what was written before it
PeerFinish(s) ==
    /\ alive
    /\ task[s] = "reading"
    /\ wire[s] = <<>>
    /\ ~fin[s]
    /\ fin' = [fin EXCEPT ![s] = TRUE]
    /\ UNCHANGED <<alive, connTask, owner, task, wire, handled, writes>>

\* the match on msg.message_type: what the arm computes
Dispatch(msg) ==
    [ msg |-> msg,
      hs  |-> IF msg.message_type = "Initial" THEN InitDecode(msg.payload) ELSE NoMsg ]

\* an unordered read: the place in w of the data read_chunk(_, false) may
\* hand out, the newest
UnorderedRead(w) == Len(w)

\* read_chunk(_, true), an ordered read: the place in w of the data handed
\* out, the unread data at the lowest offset of the stream
OrderedRead(w) == 1

\* stream task: read_chunk(500, true) yields Ok(Some(chunk)); the chunk is
\* decoded (unwrap) and dispatched. A panic drops recv and what it held.
StreamRead(s) ==
    /\ alive
    /\ task[s] = "reading"
    /\ wire[s] # <<>>
    /\ LET k     == OrderedRead(wire[s])
           head  == wire[s][k]
           chunk == Take(head, READ_MAX)
           rest  == SubSeq(wire[s], 1, k - 1)
                        \o (IF Len(head) > READ_MAX
                            THEN << Drop(head, READ_MAX) >> ELSE << >>)
                        \o SubSeq(wire[s], k + 1, Len(wire[s]))
           r     == Decode(chunk)
       IN  IF r.ok
           THEN /\ wire' = [wire EXCEPT ![s] = rest]
                /\ handled' = [handled EXCEPT ![s] = Append(@, Dispatch(r.val))]
                /\ UNCHANGED <<task, alive>>
           ELSE /\ wire' = [wire EXCEPT ![s] = <<>>]
                /\ task' = [task EXCEPT ![s] = "panicked"]
                /\ alive' = AfterTaskPanic(alive)
                /\ UNCHANGED handled
    /\ UNCHANGED <<connTask, owner, fin, writes>>

\* stream task: read_chunk yields Ok(None); the task is at `continue`
StreamReadNone(s) ==
    /\ alive
    /\ task[s] = "reading"
    /\ AtEnd(s)
    /\ task' = [task EXCEPT ![s] = "eos"]
    /\ UNCHANGED <<alive, connTask, owner, wire, fin, handled, writes>>

\* stream task: `continue` takes the loop back to read_chunk
StreamContinue(s) ==
    /\ alive
    /\ task[s] = "eos"
    /\ task' = [task EXCEPT ![s] = "reading"]
    /\ UNCHANGED <<alive, connTask, owner, wire, fin, handled, writes>>

\* what the task reading stream s may do
StreamTask(s) == StreamRead(s) \/ StreamReadNone(s) \/ StreamContinue(s)

\* the history of one write: the chunks it was delivered as
Record(s, b, cut) == sent' = [sent EXCEPT ![s] = @ \o ChunksOf(b, cut)]

\* a step of the server leaves the codec harness and the sender alone
ServerStep == UNCHANGED <<codecVars, out>>

\* the server: any number of connections and streams within the bounds, the
\* peers writing a frame or a buffer Message::decode fails on
Next ==
    \/ \E c \in Conns : MainAccept(c) /\ UNCHANGED sent /\ ServerStep
    \/ MainAcceptFail /\ UNCHANGED sent /\ ServerStep
    \/ \E c \in Conns, s \in Streams : AcceptBi(c, s) /\ UNCHANGED sent /\ ServerStep
    \/ \E c \in Conns : ConnRespond(c) /\ UNCHANGED sent /\ ServerStep
    \/ \E c \in Conns : ConnRespondErr(c) /\ UNCHANGED sent /\ ServerStep
    \/ \E c \in Conns : ConnectionLost(c) /\ UNCHANGED sent /\ ServerStep
    \/ \E s \in Streams, b \in ServerBufs : PeerWrite(s, b, 0) /\ UNCHANGED sent /\ ServerStep
    \/ \E s \in Streams : PeerFinish(s) /\ UNCHANGED sent /\ ServerStep
    \/ \E s \in Streams : StreamRead(s) /\ UNCHANGED sent /\ ServerStep
    \/ \E s \in Streams : StreamReadNone(s) /\ UNCHANGED sent /\ ServerStep
    \/ \E s \in Streams : StreamContinue(s) /\ UNCHANGED sent /\ ServerStep

\* one connection and one stream of it, the peer writing any of PeerBufs,
\* whole or split in two chunks
StreamNext ==
    \/ MainAccept(1) /\ UNCHANGED sent /\ ServerStep
    \/ MainAcceptFail /\ UNCHANGED sent /\ ServerStep
    \/ AcceptBi(1, 1) /\ UNCHANGED sent /\ ServerStep
    \/ ConnRespond(1) /\ UNCHANGED sent /\ ServerStep
    \/ ConnRespondErr(1) /\ UNCHANGED sent /\ ServerStep
    \/ ConnectionLost(1) /\ UNCHANGED sent /\ ServerStep
    \/ \E b \in PeerBufs : \E cut \in CutsOf(b) :
            PeerWrite(1, b, cut) /\ Record(1, b, cut) /\ ServerStep
    \/ PeerFinish(1) /\ UNCHANGED sent /\ ServerStep
    \/ StreamRead(1) /\ UNCHANGED sent /\ ServerStep
    \/ StreamReadNone(1) /\ UNCHANGED sent /\ ServerStep
    \/ StreamContinue(1) /\ UNCHANGED sent /\ ServerStep

----------------------------------------------------------------------------
(* Specifications *)

Init == ServerInit /\ CodecInit /\ out = <<>>

\* the server, with peers writing to its streams
Spec == Init /\ [][Next]_vars

\* one stream of the server, with a peer writing frames, split frames, frames
\* back to back and malformed frames
SpecStream == Init /\ [][StreamNext]_vars

\* the same, the runtime running the stream's task whenever it can run
SpecStreamFair ==
    SpecStream /\ WF_vars(StreamTask(1) /\ UNCHANGED sent /\ ServerStep)

\* messages built by Message::new or as struct literals, encoded and decoded
LiteralNext ==
    \/ \E t \in MessageTypes, c \in ConnectionIds, id \in GeneratedIds, p \in Payloads :
            CodecNew(t, c, id, p) /\ CodecStep
    \/ \E t \in MessageTypes, c \in ConnectionIds, id \in GeneratedIds, p \in Payloads,
          n \in LiteralLengths :
            CodecLiteral(t, c, id, p, n) /\ CodecStep
    \/ CodecEncode /\ CodecStep
    \/ CodecDecode /\ CodecStep

SpecLiteral == Init /\ [][LiteralNext]_vars

\* what a sender may be given to send: the payloads of the codec harness and
\* one that makes a frame longer than CHUNK_SIZE
SenderPayloads == Payloads \cup { [i \in 1..BigPayloadLen |-> 0] }

\* the sender passes the encoded message to the stream: one write_chunk call
\* with the whole buffer
SenderWrite ==
    /\ cpc = "encoded"
    /\ out' = Append(out, buf)
    /\ cpc' = "written"
    /\ UNCHANGED <<m, buf, origin, res, serverVars>>

\* a sender: Message::new, encode, write_chunk
SenderNext ==
    \/ \E t \in MessageTypes, c \in ConnectionIds, id \in GeneratedIds,
          p \in SenderPayloads :
            CodecNew(t, c, id, p) /\ CodecStep
    \/ CodecEncode /\ CodecStep
    \/ SenderWrite

SpecSender == Init /\ [][SenderNext]_vars

\* the handshake payload: new, encode, decode
HandshakeNext ==
    \/ \E a \in SocketAddrs, b \in SocketAddrs : CodecInitNew(a, b) /\ CodecStep
    \/ CodecInitEncode /\ CodecStep
    \/ CodecInitDecode /\ CodecStep

SpecHandshake == Init /\ [][HandshakeNext]_vars

\* Message::decode on buffers of all kinds: frames, frames with header bytes
\* or the length field overwritten, prefixes, frames followed by more bytes
BufferNext ==
    \/ \E t \in MessageTypes, c \in ConnectionIds, id \in GeneratedIds, p \in Payloads :
            CodecNew(t, c, id, p) /\ CodecStep
    \/ CodecEncode /\ CodecStep
    \/ \E i \in PokeOffsets, v \in PokeBytes : CodecPoke(i, v) /\ CodecStep
    \/ \E n \in PokeLengths : CodecSetLength(n) /\ CodecStep
    \/ \E k \in 0..(HEADER_LENGTH + INIT_PAYLOAD_LENGTH) :
            CodecTruncate(k) /\ CodecStep
    \/ \E suffix \in Suffixes : CodecExtend(suffix) /\ CodecStep
    \/ CodecDecode /\ CodecStep

SpecBuffer == Init /\ [][BufferNext]_vars

\* the same buffers, decoded on a 32-bit or a 64-bit target
TargetNext ==
    \/ \E t \in MessageTypes, c \in ConnectionIds, id \in GeneratedIds, p \in Payloads :
            CodecNew(t, c, id, p) /\ CodecStep
    \/ CodecEncode /\ CodecStep
    \/ \E i \in PokeOffsets, v \in PokeBytes : CodecPoke(i, v) /\ CodecStep
    \/ \E n \in PokeLengths : CodecSetLength(n) /\ CodecStep
    \/ \E k \in 0..(HEADER_LENGTH + INIT_PAYLOAD_LENGTH) :
            CodecTruncate(k) /\ CodecStep
    \/ \E suffix \in Suffixes : CodecExtend(suffix) /\ CodecStep
    \/ \E bits \in UsizeBits : CodecDecodeOn(bits) /\ CodecStep

SpecTarget == Init /\ [][TargetNext]_vars

\* the codec alone
SpecCodec == Init /\ [][CodecNext]_vars

----------------------------------------------------------------------------
(* Properties *)

RECURSIVE Flatten(_)
\* the bytes of a sequence of chunks
Flatten(chunks) ==
    IF chunks = <<>> THEN <<>> ELSE Head(chunks) \o Flatten(Tail(chunks))

\* the messages a stream task has decoded and dispatched, in order
Messages(s) == [i \in 1..Len(handled[s]) |-> handled[s][i].msg]

\* everything delivered to stream s so far is the frame of message x
OnlyFrameOf(s, x) == sent[s] # <<>> /\ Flatten(sent[s]) = Encode(x)

\* C1: a frame delivered to a stream as any sequence of chunks yields exactly
\* one decoded message, equal to the one encoded; while part of the frame is
\* outstanding nothing is processed, and no chunk makes the reader fail.
C1_ChunkedDelivery ==
    \A s \in Streams : \A x \in PeerMessages :
        (alive /\ OnlyFrameOf(s, x) /\ task[s] # "stopped") =>
            /\ task[s] # "panicked"
            /\ wire[s] # <<>> => Messages(s) = <<>>
            /\ wire[s] = <<>> => Messages(s) = <<x>>

\* C2: one read that delivers two frames back to back yields both messages,
\* in order.
C2_BackToBack ==
    \A s \in Streams : \A x1, x2 \in PeerMessages :
        ( /\ alive
          /\ sent[s] = << Encode(x1) \o Encode(x2) >>
          /\ Len(Encode(x1) \o Encode(x2)) <= READ_MAX
          /\ task[s] # "stopped"
          /\ wire[s] = <<>> ) =>
            /\ task[s] # "panicked"
            /\ Messages(s) = <<x1, x2>>

\* a step in which the reader of stream s fails on a chunk it cannot decode
DecodeFailure(s) == task[s] = "reading" /\ task'[s] = "panicked"

\* C3: a decode failure on one stream ends the reader of that stream only:
\* the process lives, every connection task and every other stream is left as
\* it was; and wherever a reader has failed, the other readers still read
\* what arrives, the accept loops still accept streams and connections.
C3_Isolated ==
    \A s \in Streams :
        DecodeFailure(s) =>
            /\ alive'
            /\ connTask' = connTask
            /\ owner' = owner
            /\ \A t \in Streams \ {s} :
                  task'[t] = task[t] /\ wire'[t] = wire[t] /\ handled'[t] = handled[t]

C3_StillServing ==
    (alive /\ \E s \in Streams : task[s] = "panicked") =>
        /\ \A t \in Streams :
              (task[t] = "reading" /\ wire[t] # <<>>) => ENABLED StreamRead(t)
        /\ \A c \in Conns :
              (connTask[c] = "accept" /\ \E t \in Streams : owner[t] = 0)
                  => ENABLED (\E t \in Streams : AcceptBi(c, t))
        /\ (\E c \in Conns : connTask[c] = "none") => ENABLED (\E c \in Conns : MainAccept(c))

C3_FaultIsolation == [][C3_Isolated]_vars /\ []C3_StillServing

\* C3 witness: one reader has failed; a frame has arrived on a stream of
\* another connection whose reader is running, and the failed stream's
\* connection is back at accept_bi().
C3_Witness ==
    \E s, t \in Streams :
        /\ alive
        /\ task[s] = "panicked"
        /\ owner[t] # owner[s]
        /\ task[t] = "reading"
        /\ wire[t] # <<>>
        /\ connTask[owner[s]] = "accept"

\* C4: decoding the encoding of a message built by Message::new succeeds and
\* gives back every field.
C4_RoundTrip ==
    (cpc = "decoded" /\ origin = "frame") =>
        /\ res.ok
        /\ res.val.magic = m.magic
        /\ res.val.version = m.version
        /\ res.val.message_type = m.message_type
        /\ res.val.connection_id = m.connection_id
        /\ res.val.message_id = m.message_id
        /\ res.val.length = m.length
        /\ res.val.payload = m.payload

\* C4 witness: a Ping message with a two-byte payload has been encoded and
\* decoded.
C4_Witness ==
    /\ cpc = "decoded"
    /\ origin = "frame"
    /\ m.message_type = "Ping"
    /\ Len(m.payload) = MaxPayloadLen

\* the outcome a caller reads as "wait for more bytes"
Incomplete(r) == ~r.ok /\ r.kind = "UnexpectedEof"

\* C5: every proper prefix of an encoded frame decodes to Incomplete, the
\* frame itself decodes.
C5_PrefixIncomplete ==
    cpc = "decoded" =>
        /\ origin = "prefix" => Incomplete(res)
        /\ origin = "frame" => res.ok

\* C5 witness: a prefix holding the whole header and part of the payload has
\* been decoded.
C5_Witness ==
    /\ cpc = "decoded"
    /\ origin = "prefix"
    /\ Len(buf) > HEADER_LENGTH

\* C6: header length, then version, then type, each failure of its own
\* kind: short buffers are Incomplete; a bad version is a fatal error that is
\* neither Incomplete nor the error a bad type gives; a bad type under a good
\* version is a fatal error; both come before the payload check.
C6_ErrorKinds ==
    cpc = "decoded" =>
        /\ Len(buf) < HEADER_LENGTH => Incomplete(res)
        /\ (Len(buf) >= HEADER_LENGTH /\ buf[2] # 1) =>
              /\ ~res.ok
              /\ ~Incomplete(res)
              /\ res # Decode(WithByte(WithByte(buf, 2, 1), 3, 9))
        /\ (Len(buf) >= HEADER_LENGTH /\ buf[2] = 1 /\ buf[3] \notin 1..4) =>
              /\ ~res.ok
              /\ ~Incomplete(res)

\* C7: a buffer of at least 39 bytes that does not start with 0xAA is
\* rejected, and no decoded message carries another magic.
C7_MagicChecked ==
    cpc = "decoded" =>
        /\ (Len(buf) >= HEADER_LENGTH /\ buf[1] # MAGIC_BYTE) => ~res.ok
        /\ res.ok => res.val.magic = MAGIC_BYTE

IsType(e, t) == e.msg.message_type = t

SameConn(e, f) == e.msg.connection_id = f.msg.connection_id

\* entry j of the log is an Initial whose handshake payload decoded
Handshake(log, j) == IsType(log[j], "Initial") /\ log[j].hs.ok

\* C8: no Data message is taken on a connection id whose handshake has not
\* been processed before it.
C8_NoDataBeforeHandshake ==
    \A s \in Streams : \A i \in 1..Len(handled[s]) :
        IsType(handled[s][i], "Data") =>
            \E j \in 1..(i - 1) :
                Handshake(handled[s], j) /\ SameConn(handled[s][j], handled[s][i])

\* C9: after a successful Initial for a connection id, no further Initial
\* for it is taken and its payload is not decoded again.
C9_NoSecondInitial ==
    \A s \in Streams : \A i, j \in 1..Len(handled[s]) :
        ( /\ i < j
          /\ Handshake(handled[s], i)
          /\ SameConn(handled[s][i], handled[s][j])
          /\ \A k \in (i + 1)..(j - 1) :
                ~(IsType(handled[s][k], "Close") /\ SameConn(handled[s][k], handled[s][i])) )
            => ~IsType(handled[s][j], "Initial")

\* C10: after a Close for a connection id, no later Data, Ping or Close on
\* the stream is taken for that id unless a new handshake came first.
C10_CloseTerminal ==
    \A s \in Streams : \A i, j \in 1..Len(handled[s]) :
        ( /\ i < j
          /\ IsType(handled[s][i], "Close")
          /\ SameConn(handled[s][i], handled[s][j])
          /\ ~IsType(handled[s][j], "Initial") )
            => \E k \in (i + 1)..(j - 1) :
                  Handshake(handled[s], k) /\ SameConn(handled[s][k], handled[s][i])

\* the task reading stream s is running: it has not panicked or left its loop
Running(s) == task[s] \in {"reading", "eos"}

\* C11: once read_chunk has reported the end of a stream, the task reading
\* it eventually terminates.
C11_ReaderTerminates ==
    \A s \in Streams : (task[s] = "eos") ~> ~Running(s)

\* entry j of the log is an Initial whose handshake payload did not decode
FailedHandshake(log, j) == IsType(log[j], "Initial") /\ ~log[j].hs.ok

\* C12: once an Initial whose payload does not decode as a handshake has been
\* taken on a stream, the stream is closed: its task is no longer reading and
\* no further message of the stream is processed.
C12_FailedHandshakeCloses ==
    \A s \in Streams : \A j \in 1..Len(handled[s]) :
        FailedHandshake(handled[s], j) =>
            /\ j = Len(handled[s])
            /\ ~Running(s)

\* C13: whatever Message value is encoded, the buffer has 39 + payload.len()
\* bytes and its bytes 35..38 hold the payload's byte count, big-endian.
C13_LengthFromPayload ==
    cpc \in {"encoded", "decoded"} =>
        /\ Len(buf) = HEADER_LENGTH + Len(m.payload)
        /\ SubSeq(buf, 36, 39) = U32ToBeBytes(AsU32(Len(m.payload)))

C15_HandshakeRoundTrip ==
    /\ cpc = "failed" <=> (m # NoMsg /\ (~m.addr.v4 \/ ~m.proxy_addr.v4))
    /\ cpc = "failed" => res = Err("Unsupported", "IPv6 is not supported")
    /\ cpc \in {"encoded", "decoded"} =>
          /\ Len(buf) = INIT_PAYLOAD_LENGTH
          /\ buf[1] * 256 + buf[2] = m.addr.port
          /\ buf[3] * 256 + buf[4] = m.proxy_addr.port
          /\ SubSeq(buf, 5, 8) = m.addr.ip
          /\ SubSeq(buf, 9, 12) = m.proxy_addr.ip
    /\ cpc = "decoded" =>
          /\ res.ok
          /\ res.val.client_ip = m.addr.ip
          /\ res.val.client_port = m.addr.port
          /\ res.val.proxy_port = m.proxy_addr.port
          /\ res.val.proxy_host = m.proxy_addr.ip

\* C15 witness: the payload for 10.0.2.255:3000 -> 127.0.0.1:20000 has been
\* encoded and decoded.
C15_Witness ==
    /\ cpc = "decoded"
    /\ m.addr = SocketAddrV4(<<10, 0, 2, 255>>, 3000)
    /\ m.proxy_addr = SocketAddrV4(<<127, 0, 0, 1>>, 20000)

\* C16: within a stream, the messages are processed in the order their bytes
\* arrived: the i-th message processed is the one decoded from the i-th chunk
\* delivered, so none is processed before one that arrived earlier.
C16_InOrder ==
    \A s \in Streams : \A i \in 1..Len(handled[s]) :
        /\ i <= Len(sent[s])
        /\ Decode(Take(sent[s][i], READ_MAX)) = Ok(handled[s][i].msg)

\* C16 witness: a Data frame and then a Close frame arrived on stream 1 and
\* both have been processed, Data first.
C16_Witness ==
    /\ sent[1] = << FData, FClose >>
    /\ Len(handled[1]) = 2
    /\ IsType(handled[1][1], "Data")
    /\ IsType(handled[1][2], "Close")

\* C17: whatever the buffer, Message::decode returns a Message or an error
\* value, it does not abort, and a Message it returns has a payload of as
\* many bytes as its length field says, all of them inside the buffer.
C17_DecodeTotal ==
    cpc = "decoded" =>
        /\ res.ok \/ res.kind \in {"UnexpectedEof", "InvalidData"}
        /\ res.ok =>
              /\ res.val.length = AsU32(Len(res.val.payload))
              /\ HEADER_LENGTH + Len(res.val.payload) <= Len(buf)

\* C18: a buffer made of an encoded frame and more bytes after it decodes to
\* the message the frame alone decodes to; only the first 39 + length bytes
\* of the buffer count.
C18_TrailingIgnored ==
    (cpc = "decoded" /\ origin = "extended") =>
        /\ res.ok
        /\ res = Decode(Encode(m))
        /\ res.val.payload = m.payload
        /\ res = Decode(Take(buf, HEADER_LENGTH + AsUsize(res.val.length)))

\* C18 witness: a frame with a payload, followed by three more bytes, has
\* been decoded.
C18_Witness ==
    /\ cpc = "decoded"
    /\ origin = "extended"
    /\ Len(m.payload) = MaxPayloadLen
    /\ Len(buf) = HEADER_LENGTH + Len(m.payload) + 3

\* C19: a buffer of 39 bytes or more whose version and type bytes are valid
\* never fails at an identifier: it decodes, with the 16 bytes at offsets
\* 3..18 and 19..34 as its identifiers whatever they are, or its payload is
\* Incomplete.
C19_IdentifiersAccepted ==
    ( /\ cpc = "decoded"
      /\ Len(buf) >= HEADER_LENGTH
      /\ buf[2] = 1
      /\ buf[3] \in 1..4 ) =>
        \/ /\ res.ok
           /\ res.val.connection_id = SubSeq(buf, 4, 19)
           /\ res.val.message_id = SubSeq(buf, 20, 35)
        \/ res = Err("UnexpectedEof", "Payload incomplete")

\* C19 witness: a buffer whose connection_id starts with 00 or whose
\* message_id ends with FF has been decoded to a message.
C19_Witness ==
    /\ cpc = "decoded"
    /\ origin = "poked"
    /\ buf[4] = 0 \/ buf[35] = 255
    /\ res.ok

====
